---------------------------- MODULE Spec2Model ----------------------------
(***************************************************************************)
(* A model of the Snyk utility's request layer and waiver workflow.        *)
(*                                                                         *)
(*   Spec          SnykAPIClient._make_request (both clients) driven by    *)
(*                 smart_add_waiver (snyk_utility.py) and by               *)
(*                 trigger_project_test (snyk_auth_debug.py)               *)
(*   SpecDistinct  get_project_issues / get_distinct_issues                *)
(*   SpecTemplates WaiverTemplateManager and its backing file              *)
(*   SpecTrigger   trigger_project_test (snyk_utility.py)                  *)
(*   SpecWaivers   get_all_waivers and the reports built on it             *)
(*   SpecBulk      bulk_add_waivers, bulk_add_waivers_by_project_list      *)
(*   SpecCleanup   cleanup_expired_waivers                                 *)
(*   SpecRemove    remove_waivers_by_issue                                 *)
(***************************************************************************)
EXTENDS Integers, Sequences, FiniteSets, TLC

VARIABLES
    client,          \* which SnykAPIClient runs: "utility" or "debug"
    pc,              \* position of the running operation
    skip_if_waived,  \* smart_add_waiver's parameter
    issueExists,     \* server: the issue is in the target project
    serverWaivers,   \* server: the waivers of the issue in the project
    call,            \* the request _make_request is working on
    attempt,         \* _make_request: the loop variable
    responses,       \* _make_request: what each attempt of this call got
    sleeps,          \* _make_request: the time.sleep calls of this call
    outcome,         \* _make_request: "running", "returned" or "raised"
    error,           \* _make_request: the exception class raised
    reqLog,          \* every request sent by the operation, in order
    callLog,         \* every finished _make_request call of the operation
    existing,        \* what get_existing_waivers_for_issue returned
    addCalls,        \* number of add_waiver calls of the operation
    result,          \* what the operation returned
    project_ids,     \* get_distinct_issues: its argument
    listings,        \* server: the issues listed per project
    idx,             \* get_distinct_issues: position in project_ids
    fetched,         \* what get_project_issues returned per project so far
    all_issues,      \* get_distinct_issues: the set being built
    templates,       \* WaiverTemplateManager.templates
    templates_file,  \* the backing JSON file of the templates
    lastOp,          \* the last template operation and what it did
    added,           \* templates add_template accepted, not removed since
    removed,         \* names remove_template removed, not added since
    projectWaivers,  \* server: the waivers of every project
    active_only,     \* get_all_waivers' parameter
    all_waivers,     \* get_all_waivers: the list being built
    shown,           \* the waivers a removal listed before its prompt
    confirm,         \* the answer typed at the removal's prompt
    deleted,         \* the waivers a DELETE request was sent for
    issues,          \* bulk_add_waivers: its argument
    issue_reference, \* bulk_add_waivers_by_project_list: its argument
    results,         \* the outcome map of the bulk operation
    bulkLog          \* what each item of the bulk operation did

vars == <<client, pc, skip_if_waived, issueExists, serverWaivers, call,
          attempt, responses, sleeps, outcome, error, reqLog, callLog,
          existing, addCalls, result, project_ids, listings, idx, fetched,
          all_issues, templates, templates_file, lastOp, added, removed,
          projectWaivers, active_only, all_waivers, shown, confirm, deleted,
          issues, issue_reference, results, bulkLog>>

reqVars == <<call, attempt, responses, sleeps, outcome, error>>
distinctVars == <<project_ids, listings, idx, fetched, all_issues>>
templateVars == <<templates, templates_file, lastOp, added, removed>>
waiverVars == <<projectWaivers, active_only, all_waivers, shown, confirm,
                deleted>>
bulkVars == <<issues, issue_reference, results, bulkLog>>
smartVars == <<client, skip_if_waived, issueExists, serverWaivers, reqLog,
               callLog, existing, addCalls>>

\* The parts of the state an operation does not use stay as they are here.
RequestsIdle ==
    /\ call = "none"
    /\ attempt = 0
    /\ responses = <<>>
    /\ sleeps = <<>>
    /\ outcome = "running"
    /\ error = "none"

SmartIdle ==
    /\ skip_if_waived = TRUE
    /\ issueExists = TRUE
    /\ serverWaivers = <<>>
    /\ reqLog = <<>>
    /\ callLog = <<>>
    /\ existing = <<>>
    /\ addCalls = 0

DistinctIdle ==
    /\ listings = <<>>
    /\ fetched = <<>>
    /\ all_issues = {}

TemplatesIdle ==
    /\ templates = <<>>
    /\ templates_file = <<>>
    /\ lastOp = <<>>
    /\ added = <<>>
    /\ removed = {}

RemovalIdle ==
    /\ shown = <<>>
    /\ confirm = "none"
    /\ deleted = <<>>

WaiversIdle ==
    /\ projectWaivers = <<>>
    /\ active_only = TRUE
    /\ all_waivers = <<>>
    /\ RemovalIdle

BulkIdle ==
    /\ issues = <<>>
    /\ issue_reference = <<>>
    /\ results = <<>>
    /\ bulkLog = <<>>

-----------------------------------------------------------------------------
(* Bounds of the model *)

MaxWaivers == 2      \* waivers the server holds for the issue at the start
MaxProjects == 2     \* length of project_ids
MaxIssues == 2       \* issues the server lists for one project
MaxFileEntries == 2  \* custom_templates entries of the file at the start
MaxCustom == 2       \* templates beyond the built-in ones in the catalog

(* Program constants *)

max_retries == 3
backoff_factor == 1
DefaultRetryAfter == 60
now == 0             \* datetime.now(), in days; expiry dates are offsets
TemplateDays == 90   \* upgrade_planned: 90 days
HorizonDays == 30    \* cutoff_date = datetime.now() + timedelta(days=30)

-----------------------------------------------------------------------------
(* Server responses.  A response is what session.request produced: an     *)
(* HTTP response with a status code, or a transport failure (the          *)
(* RequestException session.request raises on timeouts and resets).       *)
(* retry_after is the Retry-After header: absent, a number of seconds, or *)
(* an HTTP date, which int() cannot read.                                 *)

Http(s) == [kind |-> "http", status |-> s, retry_after |-> "absent", secs |-> 0]

Transport == [kind |-> "transport", status |-> 0, retry_after |-> "absent", secs |-> 0]

RateLimited ==
    { [kind |-> "http", status |-> 429, retry_after |-> "absent", secs |-> 0],
      [kind |-> "http", status |-> 429, retry_after |-> "seconds", secs |-> 7],
      [kind |-> "http", status |-> 429, retry_after |-> "date", secs |-> 0] }

Failures == {Transport, Http(401), Http(500)} \cup RateLimited

\* What the server may answer to a request: the existence probe is answered
\* 200 only for an issue of the project and 404 only for one that is not.
ServerAnswersFor(c, exists) ==
    IF c = "probe"
    THEN Failures \cup (IF exists THEN {Http(200)} ELSE {Http(404)})
    ELSE Failures \cup {Http(200), Http(404)}

ServerAnswers(c) == ServerAnswersFor(c, issueExists)

-----------------------------------------------------------------------------
(* _make_request *)

\* response.raise_for_status(): 4xx and 5xx raise HTTPError
raise_for_status(r) == r.status >= 400

\* int(response.headers.get('Retry-After', 60))
retry_after(r) == IF r.retry_after = "absent" THEN DefaultRetryAfter ELSE r.secs

\* Mutant: the backoff grows linearly, 2 * attempt.
wait_time_Linear(a) == backoff_factor * (2 * a)

\* backoff_factor * (2 ** attempt)
wait_time(a) == backoff_factor * (2 ^ a)

\* Mutant: the last attempt is taken to be attempt max_retries.
LastAttempt_OffByOne(a) == a = max_retries

\* if attempt == max_retries - 1: raise
LastAttempt(a) == a = max_retries - 1

\* The debug client's "if response.status_code == 401" branch and its
\* "except HTTPError: if e.response.status_code == 401: raise".
AbortsOn401(c, r) == c = "debug" /\ r.kind = "http" /\ r.status = 401

\* The effect of one iteration of the loop "for attempt in range(max_retries)"
\* on the response r: the sleep it does (if any), how the call goes on.
Iteration(c, a, r) ==
    IF r.kind = "transport"
    THEN IF LastAttempt(a)
         THEN [outcome |-> "raised", error |-> "RequestException", sleep |-> <<>>]
         ELSE [outcome |-> "running", error |-> "none",
               sleep |-> <<[why |-> "backoff", secs |-> wait_time(a), attempt |-> a]>>]
    ELSE IF AbortsOn401(c, r)
    THEN [outcome |-> "raised", error |-> "HTTPError", sleep |-> <<>>]
    ELSE IF r.status = 429
    THEN IF r.retry_after = "date"
         THEN [outcome |-> "raised", error |-> "ValueError", sleep |-> <<>>]
         ELSE [outcome |-> "running", error |-> "none",
               sleep |-> <<[why |-> "rate_limit", secs |-> retry_after(r), attempt |-> a]>>]
    ELSE IF raise_for_status(r)
    THEN IF LastAttempt(a)
         THEN [outcome |-> "raised", error |-> "HTTPError", sleep |-> <<>>]
         ELSE [outcome |-> "running", error |-> "none",
               sleep |-> <<[why |-> "backoff", secs |-> wait_time(a), attempt |-> a]>>]
    ELSE [outcome |-> "returned", error |-> "none", sleep |-> <<>>]

\* The loop ran out: raise Exception("Max retries exceeded")
LoopExhausted(a) == a >= max_retries

\* Entering _make_request for the request c.
BeginCall(c) ==
    /\ call' = c
    /\ attempt' = 0
    /\ responses' = <<>>
    /\ sleeps' = <<>>
    /\ outcome' = "running"
    /\ error' = "none"

\* A successful waiver-create request stores the waiver on the server:
\* expiry = (datetime.now() + timedelta(days=days)).isoformat()
NewWaiver == [form |-> "naive", day |-> now + TemplateDays]

\* Whether the server stored the waiver of a create request: it did when it
\* answered 2xx, and it may have when the answer was lost on the way.
MayStore(c, r) ==
    IF c # "create" THEN {FALSE}
    ELSE IF r.kind = "transport" THEN BOOLEAN
    ELSE {~raise_for_status(r) /\ r.status # 429}

\* One iteration of _make_request: the request is sent, the server answers,
\* the loop handles the answer.
MakeRequestAttempt ==
    /\ outcome = "running"
    /\ call # "none"
    /\ \E r \in ServerAnswers(call) : \E stored \in MayStore(call, r) :
         LET it == Iteration(client, attempt, r) IN
         /\ responses' = Append(responses, r)
         /\ reqLog' = Append(reqLog, call)
         /\ sleeps' = sleeps \o it.sleep
         /\ attempt' = attempt + 1
         /\ IF it.outcome = "running" /\ LoopExhausted(attempt + 1)
            THEN outcome' = "raised" /\ error' = "Exception"
            ELSE outcome' = it.outcome /\ error' = it.error
         /\ serverWaivers' =
              IF stored THEN Append(serverWaivers, NewWaiver) ELSE serverWaivers
    /\ UNCHANGED <<client, pc, skip_if_waived, issueExists, call, callLog,
                   existing, addCalls, result, distinctVars, templateVars, waiverVars,
                   bulkVars>>

Range(q) == { q[i] : i \in 1..Len(q) }

Last(q) == q[Len(q)]

\* _make_request has returned or raised: what its caller sees.
Finished == call # "none" /\ outcome # "running"

Returned == Finished /\ outcome = "returned"

ThisCall == [req |-> call, outcome |-> outcome]

-----------------------------------------------------------------------------
(* get_existing_waivers_for_issue: the waivers of the listing, each with   *)
(* its is_active flag.  An expiry is the attribute's string: empty (or     *)
(* missing), an ISO-8601 date (naive or with 'Z'), or text fromisoformat   *)
(* rejects; day is the date it denotes.                                    *)

Expiries ==
    << [form |-> "empty", day |-> 0], [form |-> "garbage", day |-> 0],
       [form |-> "naive", day |-> now - 5], [form |-> "naive", day |-> now + 10],
       [form |-> "utc", day |-> now + 10] >>

\* Mutant: the comparison with now is inverted.
is_active_Inverted(e) ==
    IF e.form = "empty" THEN TRUE
    ELSE IF e.form = "garbage" THEN TRUE
    ELSE e.day < now

\* Mutant: an expiry that cannot be read counts as expired.
is_active_Strict(e) ==
    IF e.form = "empty" THEN TRUE
    ELSE IF e.form = "garbage" THEN FALSE
    ELSE e.day > now

\* is_active = True; if expiry_str: try: is_active = expiry_date > now
\* except: pass
is_active(e) ==
    IF e.form = "empty" THEN TRUE
    ELSE IF e.form = "garbage" THEN TRUE
    ELSE e.day > now

ParseWaivers(ws) ==
    [i \in 1..Len(ws) |-> [expiry_date |-> ws[i], is_active |-> is_active(ws[i])]]

\* active_waivers = [w for w in existing_waivers if w.is_active]
active_waivers(ws) == SelectSeq(ws, LAMBDA w : w.is_active)

-----------------------------------------------------------------------------
(* smart_add_waiver (snyk_utility.py) *)

Statuses == {"added", "skipped_existing_waiver", "skipped_no_issue", "failed"}

\* Mutant: a failed probe is ignored when skip_if_waived is False.
AfterProbe_IgnoredUnlessSkip(ok, skip) ==
    IF ~ok /\ skip THEN "skipped_no_issue"
    ELSE IF skip THEN "listing"
    ELSE "create"

\* Mutant: a failed probe is ignored when skip_if_waived is True.
AfterProbe_IgnoredWhenSkip(ok, skip) ==
    IF ~ok /\ ~skip THEN "skipped_no_issue"
    ELSE IF skip THEN "listing"
    ELSE "create"

\* try: probe / except Exception: return skipped_no_issue / if skip_if_waived
AfterProbe(ok, skip) ==
    IF ~ok THEN "skipped_no_issue"
    ELSE IF skip THEN "listing"
    ELSE "create"

\* add_waiver is entered: its one _make_request call starts.
EnterAddWaiver ==
    /\ pc' = "create"
    /\ addCalls' = addCalls + 1
    /\ BeginCall("create")
    /\ UNCHANGED result

StartSmartAddWaiver ==
    /\ pc = "idle"
    /\ client = "utility"
    /\ \E s \in BOOLEAN : skip_if_waived' = s
    /\ pc' = "probe"
    /\ BeginCall("probe")
    /\ UNCHANGED <<client, issueExists, serverWaivers, reqLog, callLog,
                   existing, addCalls, result, distinctVars, templateVars, waiverVars,
                   bulkVars>>

\* The existence probe is over: "except Exception" returns skipped_no_issue,
\* otherwise the waiver check or add_waiver follows.
ProbeReturns ==
    /\ pc = "probe"
    /\ Finished
    /\ callLog' = Append(callLog, ThisCall)
    /\ LET next == AfterProbe(Returned, skip_if_waived) IN
       IF next = "skipped_no_issue"
       THEN /\ result' = "skipped_no_issue"
            /\ pc' = "done"
            /\ UNCHANGED <<reqVars, addCalls>>
       ELSE IF next = "listing"
       THEN /\ pc' = "listing"
            /\ BeginCall("listing")
            /\ UNCHANGED <<result, addCalls>>
       ELSE EnterAddWaiver
    /\ UNCHANGED <<client, skip_if_waived, issueExists, serverWaivers, reqLog,
                   existing, distinctVars, templateVars, waiverVars,
                   bulkVars>>

\* get_existing_waivers_for_issue returns (the empty list when its request
\* raised) and smart_add_waiver looks for an active waiver.
ListingReturns ==
    /\ pc = "listing"
    /\ Finished
    /\ callLog' = Append(callLog, ThisCall)
    /\ LET ws == IF Returned THEN ParseWaivers(serverWaivers) ELSE <<>> IN
       /\ existing' = ws
       /\ IF active_waivers(ws) # <<>>
          THEN /\ result' = "skipped_existing_waiver"
               /\ pc' = "done"
               /\ UNCHANGED <<reqVars, addCalls>>
          ELSE EnterAddWaiver
    /\ UNCHANGED <<client, skip_if_waived, issueExists, serverWaivers, reqLog,
                   distinctVars, templateVars, waiverVars,
                   bulkVars>>

\* Mutant: add_waiver reports success whatever its request did.
success_Always == TRUE

\* add_waiver returns True or (on any exception) False.
success == Returned

CreateReturns ==
    /\ pc = "create"
    /\ Finished
    /\ callLog' = Append(callLog, ThisCall)
    /\ result' = IF success THEN "added" ELSE "failed"
    /\ pc' = "done"
    /\ UNCHANGED <<client, skip_if_waived, issueExists, serverWaivers, reqVars,
                   reqLog, existing, addCalls, distinctVars, templateVars, waiverVars,
                   bulkVars>>

-----------------------------------------------------------------------------
(* trigger_project_test (snyk_auth_debug.py) *)

test_endpoints == <<"scans", "issues_test", "org_scans">>

StartTriggerTest ==
    /\ pc = "idle"
    /\ client = "debug"
    /\ pc' = "access"
    /\ BeginCall("access")
    /\ UNCHANGED <<client, skip_if_waived, issueExists, serverWaivers, reqLog,
                   callLog, existing, addCalls, result, distinctVars, templateVars, waiverVars,
                   bulkVars>>

\* The project-access check is over.  Only HTTPError is caught there: any
\* other exception leaves trigger_project_test.
AccessReturns ==
    /\ pc = "access"
    /\ Finished
    /\ callLog' = Append(callLog, ThisCall)
    /\ IF Returned
       THEN /\ pc' = test_endpoints[1]
            /\ BeginCall(test_endpoints[1])
            /\ UNCHANGED result
       ELSE /\ result' = IF error = "HTTPError" THEN "False" ELSE "raised"
            /\ pc' = "done"
            /\ UNCHANGED reqVars
    /\ UNCHANGED <<client, skip_if_waived, issueExists, serverWaivers, reqLog,
                   existing, addCalls, distinctVars, templateVars, waiverVars,
                   bulkVars>>

\* One endpoint of the list is over: success returns True, any exception
\* moves on to the next endpoint, and the end of the list returns False.
EndpointReturns ==
    /\ \E i \in 1..Len(test_endpoints) :
         /\ pc = test_endpoints[i]
         /\ Finished
         /\ callLog' = Append(callLog, ThisCall)
         /\ IF Returned
            THEN /\ result' = "True"
                 /\ pc' = "done"
                 /\ UNCHANGED reqVars
            ELSE IF i < Len(test_endpoints)
            THEN /\ pc' = test_endpoints[i + 1]
                 /\ BeginCall(test_endpoints[i + 1])
                 /\ UNCHANGED result
            ELSE /\ result' = "False"
                 /\ pc' = "done"
                 /\ UNCHANGED reqVars
    /\ UNCHANGED <<client, skip_if_waived, issueExists, serverWaivers, reqLog,
                   existing, addCalls, distinctVars, templateVars, waiverVars,
                   bulkVars>>

-----------------------------------------------------------------------------
(* The request layer and the waiver workflow *)

\* The waiver lists the server may hold at the start: up to MaxWaivers
\* waivers with different expiry attributes, in one order each.
Increasing(n) ==
    { f \in [1..n -> 1..Len(Expiries)] :
        \A i \in 1..n, j \in 1..n : i < j => f[i] < f[j] }

WaiverLists ==
    UNION { { [i \in 1..n |-> Expiries[f[i]]] : f \in Increasing(n) } :
            n \in 0..MaxWaivers }

\* The utility client works on one issue of one project, which has it or
\* not; the debug client only triggers tests.
Init ==
    /\ client \in {"utility", "debug"}
    /\ pc = "idle"
    /\ skip_if_waived = TRUE
    /\ issueExists \in (IF client = "utility" THEN BOOLEAN ELSE {TRUE})
    /\ serverWaivers \in (IF client = "utility" THEN WaiverLists ELSE {<<>>})
    /\ call = "none"
    /\ attempt = 0
    /\ responses = <<>>
    /\ sleeps = <<>>
    /\ outcome = "running"
    /\ error = "none"
    /\ reqLog = <<>>
    /\ callLog = <<>>
    /\ existing = <<>>
    /\ addCalls = 0
    /\ result = "none"
    /\ project_ids = <<>>
    /\ listings = <<>>
    /\ idx = 0
    /\ fetched = <<>>
    /\ all_issues = {}
    /\ TemplatesIdle
    /\ WaiversIdle
    /\ BulkIdle

Next ==
    \/ StartSmartAddWaiver
    \/ StartTriggerTest
    \/ MakeRequestAttempt
    \/ ProbeReturns
    \/ ListingReturns
    \/ CreateReturns
    \/ AccessReturns
    \/ EndpointReturns

Spec == Init /\ [][Next]_vars

-----------------------------------------------------------------------------
(* Properties of smart_add_waiver *)

Smart == client = "utility" /\ pc # "idle"

ProbeSucceeded ==
    Smart /\ callLog # <<>> /\ callLog[1] = [req |-> "probe", outcome |-> "returned"]

ProbeFailed ==
    Smart /\ callLog # <<>> /\ callLog[1] = [req |-> "probe", outcome |-> "raised"]

ListingSucceeded ==
    /\ Len(callLog) >= 2
    /\ callLog[2] = [req |-> "listing", outcome |-> "returned"]

\* The server's own view of a waiver: its expiry date lies in the future.
ServerActive(e) == e.form \in {"naive", "utc"} /\ e.day > now

\* The waivers the issue had when the operation started (the operation adds
\* at most NewWaiver, which no initial list holds).
InitialWaivers == SelectSeq(serverWaivers, LAMBDA e : e # NewWaiver)

HasActiveWaiver == \E i \in 1..Len(InitialWaivers) : ServerActive(InitialWaivers[i])

\* A waiver-create request reached the server and was stored.
Created == NewWaiver \in Range(serverWaivers)

\* C1: whenever the existence probe does not succeed, smart_add_waiver
\* returns skipped_no_issue, with skip_if_waived True and False alike, and
\* sends neither a waiver-listing nor a waiver-create request.
C1_ProbeFailureSkips ==
    ProbeFailed =>
        /\ pc = "done"
        /\ result = "skipped_no_issue"
        /\ Range(reqLog) = {"probe"}
        /\ addCalls = 0
        /\ ~Created

C1_Witness ==
    /\ ProbeFailed
    /\ ~skip_if_waived
    /\ issueExists
    /\ result = "skipped_no_issue"

Rank(req) == IF req = "probe" THEN 1 ELSE IF req = "listing" THEN 2 ELSE 3

\* C3: the existence probe is the first request of smart_add_waiver; a
\* listing request is sent only after the probe succeeded, a create request
\* only after the probe succeeded and, with skip_if_waived, after the
\* listing was evaluated.
C3_ProbePrecedes ==
    Smart =>
        /\ reqLog # <<>> => reqLog[1] = "probe"
        /\ \A i \in 1..Len(reqLog), j \in 1..Len(reqLog) :
             i < j => Rank(reqLog[i]) <= Rank(reqLog[j])
        /\ "listing" \in Range(reqLog) => ProbeSucceeded /\ skip_if_waived
        /\ "create" \in Range(reqLog) =>
             /\ ProbeSucceeded
             /\ skip_if_waived =>
                  /\ Len(callLog) >= 2
                  /\ callLog[2].req = "listing"
                  /\ active_waivers(existing) = <<>>

C3_Witness ==
    /\ Smart /\ skip_if_waived
    /\ "listing" \in Range(reqLog)
    /\ "create" \in Range(reqLog)
    /\ pc = "done"

\* C4: when the probe succeeded and no active waiver short-circuits,
\* add_waiver is called exactly once, the status is added exactly when the
\* create request succeeded and failed otherwise; the status is always one
\* of the four.
C4_AddedOrFailed ==
    /\ (Smart /\ pc = "done") => result \in Statuses
    /\ Smart => addCalls <= 1
    /\ (ProbeSucceeded /\ pc = "done"
          /\ (~skip_if_waived \/ active_waivers(existing) = <<>>)) =>
        /\ addCalls = 1
        /\ Last(callLog).req = "create"
        /\ result \in {"added", "failed"}
        /\ result = "added" <=> Last(callLog).outcome = "returned"
        /\ result = "added" => Created

\* The listing showed one expired waiver, and the create request failed.
C4_Witness ==
    /\ ProbeSucceeded /\ pc = "done" /\ skip_if_waived
    /\ Len(existing) = 1 /\ ~existing[1].is_active
    /\ result = "failed" /\ addCalls = 1

-----------------------------------------------------------------------------
(* Properties of _make_request *)

NonRateLimited == { i \in 1..Len(responses) : responses[i].status # 429 }

\* The call stopped because its attempts ran out.
GaveUp ==
    /\ outcome = "raised"
    /\ error # "ValueError"
    /\ ~AbortsOn401(client, Last(responses))

\* C5: a 429 response does not consume the 3-attempt budget: after a 429
\* the request is attempted again, and the call gives up only after three
\* attempts that were not answered 429.
C5_RateLimitKeepsBudget ==
    /\ (responses # <<>> /\ Last(responses).status = 429
          /\ Last(responses).retry_after # "date") => outcome = "running"
    /\ GaveUp => Cardinality(NonRateLimited) = max_retries

AllPlain500 ==
    responses # <<>> /\ \A i \in 1..Len(responses) : responses[i] = Http(500)

\* C6: when every attempt is answered 500, _make_request sends the request
\* exactly 3 times and then raises the HTTP error of the last attempt; it
\* returns no response and sends no fourth request.
C6_ThreeAttemptsOn500 ==
    /\ Len(responses) <= max_retries
    /\ AllPlain500 =>
        /\ outcome # "returned"
        /\ Len(responses) < max_retries => outcome = "running"
        /\ Len(responses) = max_retries =>
             outcome = "raised" /\ error = "HTTPError"

C6_Witness == AllPlain500 /\ Len(responses) = max_retries /\ outcome = "raised"

\* C7: a 401 response on any attempt ends the call at once: the error is
\* raised with no backoff sleep and no further request.
C7_NoRetryOn401 ==
    \A i \in 1..Len(responses) :
        responses[i].status = 401 =>
            /\ i = Len(responses)
            /\ outcome = "raised" /\ error = "HTTPError"
            /\ \A k \in 1..Len(sleeps) : sleeps[k].attempt # i - 1

\* An attempt that failed with a transport failure or a generic HTTP error.
FailedAttempt(i) ==
    /\ responses[i].status # 429
    /\ ~AbortsOn401(client, responses[i])
    /\ responses[i].kind = "transport" \/ responses[i].status >= 400

backoffs == SelectSeq(sleeps, LAMBDA s : s.why = "backoff")

\* C8 as stated: every failed attempt k = 0, 1, 2 is followed by a backoff
\* sleep of 2^k seconds (the sequence 1s, 2s, 4s).
C8_BackoffAfterEveryFailure ==
    \A i \in 1..Len(responses) :
        FailedAttempt(i) =>
            \E k \in 1..Len(sleeps) :
                sleeps[k] = [why |-> "backoff", secs |-> 2 ^ (i - 1), attempt |-> i - 1]

\* C8, amended: a failed attempt with loop index k (429 answers count in the
\* index) is followed by a backoff sleep of 2^k seconds when k < 2 and by no
\* sleep when k = 2: the delays are 1s and 2s, never 4s.
C8_BackoffOneTwo ==
    /\ \A i \in 1..Len(responses) :
         FailedAttempt(i) =>
            IF i - 1 < max_retries - 1
            THEN \E k \in 1..Len(sleeps) :
                    sleeps[k] = [why |-> "backoff", secs |-> 2 ^ (i - 1),
                                 attempt |-> i - 1]
            ELSE \A k \in 1..Len(sleeps) : sleeps[k].attempt # i - 1
    /\ \A k \in 1..Len(backoffs) :
         /\ backoffs[k].secs = 2 ^ backoffs[k].attempt
         /\ backoffs[k].secs \in {1, 2}
         /\ FailedAttempt(backoffs[k].attempt + 1)

C8_Witness ==
    /\ Len(responses) = max_retries
    /\ \A i \in 1..Len(responses) : FailedAttempt(i)
    /\ outcome = "raised"
    /\ Len(backoffs) = 2
    /\ backoffs[1].secs = 1 /\ backoffs[2].secs = 2

-----------------------------------------------------------------------------
(* get_project_issues and get_distinct_issues (snyk_utility.py) *)

Projects == {"p1", "p2"}

\* The title attribute of the server's issues, as a sequence of characters:
\* "Xss" and "xsS2".
TitleOf == [I1 |-> <<"X", "s", "s">>, I2 |-> <<"x", "s", "S", "2">>]

\* The issues of the server, with the package coordinates the server knows.
ServerIssues ==
    << [id |-> "I1", title |-> TitleOf.I1, package_name |-> "lodash", package_version |-> "1.0"],
       [id |-> "I1", title |-> TitleOf.I1, package_name |-> "lodash", package_version |-> "2.0"],
       [id |-> "I2", title |-> TitleOf.I2, package_name |-> "lodash", package_version |-> "1.0"],
       [id |-> "I2", title |-> TitleOf.I2, package_name |-> "minimist", package_version |-> "1.0"] >>

Choices(n) ==
    { f \in [1..n -> 1..Len(ServerIssues)] :
        \A i \in 1..n, j \in 1..n : i < j => f[i] < f[j] }

\* The issue lists the server may hold for a project.
IssueLists ==
    UNION { { [i \in 1..n |-> ServerIssues[f[i]]] : f \in Choices(n) } :
            n \in 0..MaxIssues }

ProjectLists == UNION { [1..n -> Projects] : n \in 0..MaxProjects }

\* The SnykIssue built from one entry of the issues response: the package
\* fields are set to 'Unknown' and never read from the response.
SnykIssue(issue_data, project_id) ==
    [id |-> issue_data.id,
     title |-> issue_data.title,
     project_id |-> project_id,
     package_name |-> "Unknown",
     package_version |-> "Unknown"]

\* get_project_issues: the list built from the response, or the empty list
\* when one of its two requests raised.
ProjectIssues(data, project_id, ok) ==
    IF ok
    THEN [i \in 1..Len(data) |-> SnykIssue(data[i], project_id)]
    ELSE <<>>

get_project_issues(project_id, ok) == ProjectIssues(listings[project_id], project_id, ok)

\* Mutant: equality compares every field (the dataclass default).
SnykIssue_eq_AllFields(x, y) == x = y

\* SnykIssue.__eq__ (and __hash__, which hashes the same three fields)
SnykIssue_eq(x, y) ==
    /\ x.id = y.id
    /\ x.package_name = y.package_name
    /\ x.package_version = y.package_version

\* Mutant: an element equal to a member replaces it.
SetAdd_Replace(S, x) == { y \in S : ~SnykIssue_eq(x, y) } \cup {x}

\* set.add: an element equal to a member is not added.
SetAdd(S, x) == IF \E y \in S : SnykIssue_eq(x, y) THEN S ELSE S \cup {x}

RECURSIVE SetUpdate(_, _)
\* set.update(list): the elements are added in the order of the list.
SetUpdate(S, q) ==
    IF q = <<>> THEN S ELSE SetUpdate(SetAdd(S, Head(q)), Tail(q))

\* One iteration of "for project_id in project_ids": get_project_issues
\* succeeds or fails (its first or its second request raises), and its
\* result is merged into all_issues.
FetchProject ==
    /\ pc = "fetching"
    /\ idx <= Len(project_ids)
    /\ \E fetch \in {"ok", "project_request_raised", "issues_request_raised"} :
         LET project_issues == get_project_issues(project_ids[idx], fetch = "ok") IN
         /\ fetched' = Append(fetched, [ok |-> fetch = "ok", issues |-> project_issues])
         /\ all_issues' = SetUpdate(all_issues, project_issues)
    /\ idx' = idx + 1
    /\ UNCHANGED <<client, pc, skip_if_waived, issueExists, serverWaivers,
                   reqVars, reqLog, callLog, existing, addCalls, result,
                   project_ids, listings, templateVars, waiverVars, bulkVars>>

\* return all_issues
ReturnDistinct ==
    /\ pc = "fetching"
    /\ idx > Len(project_ids)
    /\ pc' = "done"
    /\ UNCHANGED <<client, skip_if_waived, issueExists, serverWaivers,
                   reqVars, reqLog, callLog, existing, addCalls, result,
                   distinctVars, templateVars, waiverVars,
                   bulkVars>>

InitDistinct ==
    /\ client = "utility"
    /\ pc = "fetching"
    /\ skip_if_waived = TRUE
    /\ issueExists = TRUE
    /\ serverWaivers = <<>>
    /\ call = "none"
    /\ attempt = 0
    /\ responses = <<>>
    /\ sleeps = <<>>
    /\ outcome = "running"
    /\ error = "none"
    /\ reqLog = <<>>
    /\ callLog = <<>>
    /\ existing = <<>>
    /\ addCalls = 0
    /\ result = "none"
    /\ project_ids \in ProjectLists
    /\ listings \in [Projects -> IssueLists]
    /\ idx = 1
    /\ fetched = <<>>
    /\ all_issues = {}
    /\ TemplatesIdle
    /\ WaiversIdle
    /\ BulkIdle

NextDistinct == FetchProject \/ ReturnDistinct

SpecDistinct == InitDistinct /\ [][NextDistinct]_vars

-----------------------------------------------------------------------------
(* Properties of get_distinct_issues *)

\* The identity key of an issue record.
Key(x) == <<x.id, x.package_name, x.package_version>>

\* The server's entries of the projects fetched successfully so far.
Listed ==
    UNION { Range(listings[project_ids[i]]) :
            i \in { k \in 1..Len(fetched) : fetched[k].ok } }

\* The issue records get_project_issues returned so far.
Fetched == UNION { Range(fetched[i].issues) : i \in 1..Len(fetched) }

\* C9: two listed issues with the same id and different package versions
\* (or package names) are both members of the result.
C9_CoordinatesKeptDistinct ==
    pc = "done" =>
        \A a \in Listed, b \in Listed :
            (a.id = b.id /\ Key(a) # Key(b)) =>
                Cardinality({ x \in all_issues : x.id = a.id }) >= 2

-----------------------------------------------------------------------------
(* WaiverTemplate and WaiverTemplateManager (snyk_utility.py)              *)
(* A WaiverTemplate is the tuple of its six fields, in the order of the    *)
(* dataclass; its dictionary form is a record with the six keys.           *)

WaiverTemplate(name, description, waiver_type, default_days, justification, category) ==
    <<name, description, waiver_type, default_days, justification, category>>

None == <<>>

\* WaiverTemplate.to_dict
to_dict(t) ==
    [name |-> t[1], description |-> t[2], waiver_type |-> t[3],
     default_days |-> t[4], justification |-> t[5], category |-> t[6]]

\* Mutant: description and justification change places.
from_dict_Swapped(data) ==
    WaiverTemplate(data.name, data.justification, data.waiver_type,
                   data.default_days, data.description, data.category)

\* WaiverTemplate.from_dict
from_dict(data) ==
    WaiverTemplate(data.name, data.description, data.waiver_type,
                   data.default_days, data.justification, data.category)

\* WaiverTemplateManager._load_default_templates
load_default_templates ==
    << WaiverTemplate("false_positive",
           "False Positive - Issue not applicable to our use case",
           "not-applicable", 365,
           "After analysis, this vulnerability does not apply to our specific implementation or usage pattern.",
           "analysis"),
       WaiverTemplate("dev_dependency",
           "Development Dependency - Not in production",
           "not-applicable", 180,
           "This vulnerability exists in a development-only dependency and does not affect production code.",
           "environment"),
       WaiverTemplate("upgrade_planned",
           "Upgrade Planned - Fix scheduled",
           "temporary", TemplateDays,
           "Upgrade to resolve this vulnerability is planned and scheduled for the next release cycle.",
           "remediation"),
       WaiverTemplate("no_exploit_path",
           "No Exploit Path - Code path not accessible",
           "not-applicable", 365,
           "The vulnerable code path is not accessible in our application architecture.",
           "analysis"),
       WaiverTemplate("low_risk_accepted",
           "Low Risk Accepted - Business decision to accept",
           "wont-fix", 365,
           "After risk assessment, business has decided to accept this low-risk vulnerability.",
           "business"),
       WaiverTemplate("legacy_system",
           "Legacy System - Cannot be updated",
           "wont-fix", 730,
           "This is a legacy system that cannot be updated due to business constraints.",
           "legacy"),
       WaiverTemplate("vendor_patch_pending",
           "Vendor Patch Pending - Waiting for upstream fix",
           "temporary", 180,
           "Waiting for vendor to release a patch for this vulnerability.",
           "vendor"),
       WaiverTemplate("test_environment",
           "Test Environment - Not production critical",
           "not-applicable", 180,
           "This vulnerability exists in test environment and does not impact production security.",
           "environment"),
       WaiverTemplate("internal_tool",
           "Internal Tool - Limited exposure",
           "wont-fix", 365,
           "This is an internal tool with limited exposure and accepted risk.",
           "business") >>

\* Mutant: no name counts as a default name.
default_names_Empty == {}

\* default_names = {t.name for t in self._load_default_templates()}
default_names == { load_default_templates[i][1] : i \in 1..Len(load_default_templates) }

\* The file: missing, unreadable (json.load or from_dict raises), or a JSON
\* object whose custom_templates is a list of template dictionaries.
NoFile == [exists |-> FALSE, valid |-> FALSE, custom_templates |-> <<>>]

CorruptFile == [exists |-> TRUE, valid |-> FALSE, custom_templates |-> <<>>]

JsonFile(ds) == [exists |-> TRUE, valid |-> TRUE, custom_templates |-> ds]

\* _load_custom_templates: what is appended to the default templates.
load_custom_templates(f) ==
    IF f.exists /\ f.valid
    THEN [i \in 1..Len(f.custom_templates) |-> from_dict(f.custom_templates[i])]
    ELSE <<>>

\* WaiverTemplateManager.__init__
NewManager(f) == load_default_templates \o load_custom_templates(f)

\* Mutant: every template of the catalog is written.
save_custom_templates_All(ts) == JsonFile([i \in 1..Len(ts) |-> to_dict(ts[i])])

\* save_custom_templates: the file it writes for the catalog ts.
save_custom_templates(ts) ==
    LET custom_templates == SelectSeq(ts, LAMBDA t : t[1] \notin default_names) IN
    JsonFile([i \in 1..Len(custom_templates) |-> to_dict(custom_templates[i])])

Matches(ts, name) == { i \in 1..Len(ts) : ts[i][1] = name }

Min(S) == CHOOSE x \in S : \A y \in S : x <= y

Max(S) == CHOOSE x \in S : \A y \in S : x >= y

\* Mutant: the last template of that name is returned.
get_template_Last(ts, name) ==
    IF Matches(ts, name) = {} THEN None ELSE ts[Max(Matches(ts, name))]

\* get_template: the first template of that name, or None
get_template(ts, name) ==
    IF Matches(ts, name) = {} THEN None ELSE ts[Min(Matches(ts, name))]

\* del self.templates[i]
Delete(ts, i) == [k \in 1..(Len(ts) - 1) |-> IF k < i THEN ts[k] ELSE ts[k + 1]]

\* The templates the user offers to add_template, and the names given to
\* remove_template and get_template.
CustomNames == {"custom_a", "custom_b"}

InputTemplates ==
    { WaiverTemplate(n, v[1], "temporary", v[2], v[3], "custom") :
        n \in CustomNames \cup {"false_positive"},
        v \in { <<"first", 30, "because">>, <<"second", 60, "accepted">> } }

InputNames == CustomNames \cup {"false_positive", "upgrade_planned"}

Op(op, name, ret, wrote, ts, f, existed) ==
    [op |-> op, name |-> name, ret |-> ret, wrote |-> wrote,
     catalog_changed |-> ts # templates, file_changed |-> f # templates_file,
     existed |-> existed]

\* add_template(template)
AddTemplate ==
    /\ pc = "templates"
    /\ \E t \in InputTemplates :
         IF get_template(templates, t[1]) # None
         THEN /\ lastOp' = Op("add_template", t[1], FALSE, FALSE, templates,
                             templates_file, Matches(templates, t[1]) # {})
              /\ UNCHANGED <<templates, templates_file, added, removed>>
         ELSE /\ Len(templates) < Len(load_default_templates) + MaxCustom
              /\ templates' = Append(templates, t)
              /\ templates_file' = save_custom_templates(templates')
              /\ lastOp' = Op("add_template", t[1], TRUE, TRUE, templates',
                             templates_file', Matches(templates, t[1]) # {})
              /\ added' = [n \in DOMAIN added \cup {t[1]} |->
                             IF n = t[1] THEN t ELSE added[n]]
              /\ removed' = removed \ {t[1]}
    /\ UNCHANGED <<pc, smartVars, reqVars, result, distinctVars, waiverVars, bulkVars>>

\* remove_template(name)
RemoveTemplate ==
    /\ pc = "templates"
    /\ \E name \in InputNames :
         IF name \in default_names \/ Matches(templates, name) = {}
         THEN /\ lastOp' = Op("remove_template", name, FALSE, FALSE, templates,
                             templates_file, Matches(templates, name) # {})
              /\ UNCHANGED <<templates, templates_file, added, removed>>
         ELSE /\ templates' = Delete(templates, Min(Matches(templates, name)))
              /\ templates_file' = save_custom_templates(templates')
              /\ lastOp' = Op("remove_template", name, TRUE, TRUE, templates',
                             templates_file', TRUE)
              /\ added' = [n \in DOMAIN added \ {name} |-> added[n]]
              /\ removed' = IF name \in DOMAIN added
                            THEN removed \cup {name} ELSE removed
    /\ UNCHANGED <<pc, smartVars, reqVars, result, distinctVars, waiverVars, bulkVars>>

\* The next run of the program: a new WaiverTemplateManager over the file.
Restart ==
    /\ pc = "templates"
    /\ lastOp.op # "init"
    /\ templates' = NewManager(templates_file)
    /\ lastOp' = Op("init", "", FALSE, FALSE, templates, templates_file, FALSE)
    /\ UNCHANGED <<pc, templates_file, added, removed, smartVars, reqVars,
                   result, distinctVars, waiverVars, bulkVars>>

\* The files the first manager may find.
FileContents ==
    {NoFile, CorruptFile} \cup
    UNION { { JsonFile([i \in 1..n |-> to_dict(q[i])]) : q \in [1..n -> InputTemplates] } :
            n \in 0..MaxFileEntries }

InitTemplates ==
    /\ client = "utility"
    /\ pc = "templates"
    /\ result = "none"
    /\ project_ids = <<>>
    /\ idx = 0
    /\ SmartIdle
    /\ RequestsIdle
    /\ DistinctIdle
    /\ WaiversIdle
    /\ BulkIdle
    /\ templates_file \in FileContents
    /\ templates = NewManager(templates_file)
    /\ lastOp = [op |-> "init", name |-> "", ret |-> FALSE, wrote |-> FALSE,
                 catalog_changed |-> FALSE, file_changed |-> FALSE,
                 existed |-> FALSE]
    /\ added = <<>>
    /\ removed = {}

NextTemplates == AddTemplate \/ RemoveTemplate \/ Restart

SpecTemplates == InitTemplates /\ [][NextTemplates]_vars

-----------------------------------------------------------------------------
(* Claims about the template manager (SpecTemplates)                       *)

BuiltinNames == { load_default_templates[i][1] : i \in 1..Len(load_default_templates) }

Untouched == ~lastOp.wrote /\ ~lastOp.catalog_changed /\ ~lastOp.file_changed

\* C11: remove_template called with the name of a built-in template returns
\* False and leaves the catalog in memory and the file as they were.
C11_BuiltinNotRemoved ==
    (lastOp.op = "remove_template" /\ lastOp.name \in BuiltinNames)
        => (lastOp.ret = FALSE /\ Untouched)

C11_Witness ==
    /\ lastOp.op = "remove_template"
    /\ lastOp.name \in BuiltinNames
    /\ lastOp.ret = FALSE
    /\ templates_file.custom_templates # <<>>

\* C12: add_template with a name the catalog already holds returns False and
\* changes neither catalog nor file, and get_template of a built-in name
\* returns the built-in definition after any calls of add_template and
\* remove_template.
C12_BuiltinNotShadowed ==
    /\ (lastOp.op = "add_template" /\ lastOp.existed)
           => (lastOp.ret = FALSE /\ Untouched)
    /\ \A i \in 1..Len(load_default_templates) :
           get_template(templates, load_default_templates[i][1])
               = load_default_templates[i]

C12_Witness ==
    /\ lastOp.op = "add_template"
    /\ lastOp.name \in BuiltinNames
    /\ lastOp.ret = FALSE
    /\ Len(templates) > Len(load_default_templates)

\* C13: no two templates of the catalog have the same name, whatever the file
\* held when the manager was constructed and whatever was added and removed.
C13_NamesUnique ==
    \A i, j \in 1..Len(templates) : templates[i][1] = templates[j][1] => i = j

\* C14: after add_template or remove_template returned True the file's
\* custom_templates is exactly the list of the catalog's templates whose names
\* are not built-in; a call that returned False wrote nothing.
C14_FileIsCustomPart ==
    lastOp.op \in {"add_template", "remove_template"} =>
        IF lastOp.ret
        THEN LET custom == SelectSeq(templates, LAMBDA t : t[1] \notin BuiltinNames) IN
             /\ templates_file.exists /\ templates_file.valid
             /\ Len(templates_file.custom_templates) = Len(custom)
             /\ \A i \in 1..Len(custom) :
                    templates_file.custom_templates[i] = to_dict(custom[i])
             /\ \A i \in 1..Len(templates_file.custom_templates) :
                    templates_file.custom_templates[i].name \notin BuiltinNames
        ELSE ~lastOp.wrote /\ ~lastOp.file_changed

C14_Witness ==
    /\ lastOp.op = "remove_template"
    /\ lastOp.ret
    /\ templates_file.custom_templates # <<>>

\* C15: a template add_template accepted is what get_template of a manager
\* constructed later over the file returns, field by field, until
\* remove_template of its name returns True; from then on a manager
\* constructed later does not hold it.
C15_PersistsAcrossRuns ==
    /\ \A n \in DOMAIN added :
           /\ get_template(NewManager(templates_file), n) = added[n]
           /\ lastOp.op = "init" => get_template(templates, n) = added[n]
    /\ \A n \in removed :
           /\ get_template(NewManager(templates_file), n) = None
           /\ lastOp.op = "init" => get_template(templates, n) = None

C15_Witness ==
    /\ lastOp.op = "init"
    /\ removed # {}
    /\ \E n \in DOMAIN added : get_template(templates, n) = added[n]

-----------------------------------------------------------------------------
(* trigger_project_test (snyk_utility.py): the REST request, then the      *)
(* legacy /v1 request when the first raised.                               *)

\* Mutant: the legacy request is sent whatever the REST request did.
FallsBack_Always(ok) == TRUE

\* except Exception as e: ... Fallback to V1 API if REST API fails
FallsBack(ok) == ~ok

StartTriggerProjectTest ==
    /\ pc = "trigger"
    /\ pc' = "rest"
    /\ BeginCall("rest")
    /\ UNCHANGED <<client, skip_if_waived, issueExists, serverWaivers, reqLog,
                   callLog, existing, addCalls, result, distinctVars,
                   templateVars, waiverVars, bulkVars>>

\* _make_request of POST /rest/orgs/{org}/projects/{p}/test is over.
RestReturns ==
    /\ pc = "rest"
    /\ Finished
    /\ callLog' = Append(callLog, ThisCall)
    /\ IF FallsBack(Returned)
       THEN /\ pc' = "v1"
            /\ BeginCall("v1")
            /\ UNCHANGED result
       ELSE /\ result' = "True"
            /\ pc' = "done"
            /\ UNCHANGED reqVars
    /\ UNCHANGED <<client, skip_if_waived, issueExists, serverWaivers, reqLog,
                   existing, addCalls, distinctVars, templateVars, waiverVars,
                   bulkVars>>

\* _make_request of POST /v1/org/{org}/project/{p}/test is over.
V1Returns ==
    /\ pc = "v1"
    /\ Finished
    /\ callLog' = Append(callLog, ThisCall)
    /\ result' = IF Returned THEN "True" ELSE "False"
    /\ pc' = "done"
    /\ UNCHANGED <<client, skip_if_waived, issueExists, serverWaivers, reqVars,
                   reqLog, existing, addCalls, distinctVars, templateVars,
                   waiverVars, bulkVars>>

InitTrigger ==
    /\ client = "utility"
    /\ pc = "trigger"
    /\ result = "none"
    /\ project_ids = <<>>
    /\ idx = 0
    /\ SmartIdle
    /\ RequestsIdle
    /\ DistinctIdle
    /\ TemplatesIdle
    /\ WaiversIdle
    /\ BulkIdle

NextTrigger ==
    \/ StartTriggerProjectTest
    \/ MakeRequestAttempt
    \/ RestReturns
    \/ V1Returns

SpecTrigger == InitTrigger /\ [][NextTrigger]_vars

RestFailed == \E i \in 1..Len(callLog) : callLog[i] = [req |-> "rest", outcome |-> "raised"]

RestSucceeded == \E i \in 1..Len(callLog) : callLog[i] = [req |-> "rest", outcome |-> "returned"]

V1Succeeded == \E i \in 1..Len(callLog) : callLog[i] = [req |-> "v1", outcome |-> "returned"]

\* C20: the legacy /v1 request is sent only once the REST call has raised
\* (its retries included) and never after it returned; when
\* trigger_project_test is over the /v1 request was sent exactly if the REST
\* call raised, and True is returned exactly if one of the two calls returned.
C20_TwoTierFallback ==
    /\ "v1" \in Range(reqLog) => (RestFailed /\ ~RestSucceeded)
    /\ pc = "done" =>
          /\ "v1" \in Range(reqLog) <=> RestFailed
          /\ result = "True" <=> (RestSucceeded \/ V1Succeeded)
          /\ result \in {"True", "False"}

C20_Witness ==
    /\ pc = "done"
    /\ result = "True"
    /\ RestFailed
    /\ V1Succeeded

-----------------------------------------------------------------------------
(* get_all_waivers and its users find_duplicate_waivers,                   *)
(* get_waiver_statistics and list_active_waivers (snyk_utility.py)         *)

\* The waivers a project may hold on the server: the issue of the waiver's
\* relationships ("none" when absent) and its expiry attribute ("missing"
\* when the attribute is absent).
WaiverPool ==
    << [id |-> 1, issue |-> "I1", expiry |-> [form |-> "naive", day |-> now + 10]],
       [id |-> 2, issue |-> "I1", expiry |-> [form |-> "utc", day |-> now + 10]],
       [id |-> 3, issue |-> "I2", expiry |-> [form |-> "naive", day |-> now + 40]],
       [id |-> 4, issue |-> "I2", expiry |-> [form |-> "naive", day |-> now - 5]],
       [id |-> 5, issue |-> "none", expiry |-> [form |-> "garbage", day |-> 0]],
       [id |-> 6, issue |-> "none", expiry |-> [form |-> "missing", day |-> 0]],
       [id |-> 7, issue |-> "I2", expiry |-> [form |-> "naive", day |-> now + HorizonDays]] >>

PoolChoices(n) ==
    { f \in [1..n -> 1..Len(WaiverPool)] :
        \A i \in 1..n, j \in 1..n : i < j => f[i] < f[j] }

ProjectWaiverLists ==
    UNION { { [i \in 1..n |-> WaiverPool[f[i]]] : f \in PoolChoices(n) } :
            n \in 0..MaxWaivers }

\* expiry_str = attrs.get('expiry', '')
expiry_str(e) == IF e.form = "missing" THEN [form |-> "empty", day |-> 0] ELSE e

\* SnykWaiver(id=..., issue_id=issue_id or 'Unknown', project_id=...,
\* expiry_date=attrs.get('expiry', 'unknown'), is_active=...)
SnykWaiver(waiver_data, project_id) ==
    [id |-> <<project_id, waiver_data.id>>,
     issue_id |-> IF waiver_data.issue = "none" THEN "Unknown" ELSE waiver_data.issue,
     project_id |-> project_id,
     expiry_date |-> waiver_data.expiry,
     is_active |-> is_active(expiry_str(waiver_data.expiry))]

\* Mutant: the active_only filter is left out.
project_waivers_Unfiltered(project_id, only_active) ==
    [i \in 1..Len(projectWaivers[project_id]) |->
        SnykWaiver(projectWaivers[project_id][i], project_id)]

\* The waivers get_all_waivers appends for one project whose two requests
\* returned.
project_waivers(project_id, only_active) ==
    LET all == [i \in 1..Len(projectWaivers[project_id]) |->
                   SnykWaiver(projectWaivers[project_id][i], project_id)] IN
    SelectSeq(all, LAMBDA w : ~(only_active /\ ~w.is_active))

\* find_duplicate_waivers: issue_groups in the order the issue ids were first
\* seen, and of these the groups with more than one waiver.
issue_group(ws, k) == SelectSeq(ws, LAMBDA w : w.issue_id = k)

FirstSeen(ws) ==
    SelectSeq([i \in 1..Len(ws) |-> i],
              LAMBDA i : \A j \in 1..(i - 1) : ws[j].issue_id # ws[i].issue_id)

duplicates(ws) ==
    LET keys == SelectSeq(FirstSeen(ws),
                          LAMBDA i : Len(issue_group(ws, ws[i].issue_id)) > 1) IN
    [n \in 1..Len(keys) |-> issue_group(ws, ws[keys[n]].issue_id)]

\* datetime.fromisoformat(waiver.expiry_date.replace('Z', '+00:00')): raises
\* on text that is no ISO-8601 date; the result carries a UTC offset exactly
\* when the text does.
Parses(e) == e.form \in {"naive", "utc"}

Aware(e) == e.form = "utc"

\* cutoff_date = datetime.now() + timedelta(days=30), without UTC offset
cutoff_date == now + HorizonDays

\* if waiver.expiry_date != 'unknown': try: if expiry_date <= cutoff_date
\* except: pass.  Comparing a datetime with offset to one without raises
\* TypeError, which the bare except swallows.
is_expiring(w) ==
    /\ w.expiry_date.form # "missing"
    /\ Parses(w.expiry_date)
    /\ ~Aware(w.expiry_date)
    /\ w.expiry_date.day <= cutoff_date

expiring_soon(ws) == SelectSeq(ws, LAMBDA w : w.is_active /\ is_expiring(w))

WaiverOps == {"find_duplicate_waivers", "get_waiver_statistics", "list_active_waivers"}

\* One iteration of "for project_id in project_ids": the project's requests
\* return and its waivers are appended, or one of them raises and the
\* project is left out.
FetchProjectWaivers ==
    /\ pc \in WaiverOps
    /\ idx <= Len(project_ids)
    /\ \E fetch \in {"ok", "project_request_raised", "waivers_request_raised"} :
         /\ fetched' = Append(fetched, [ok |-> fetch = "ok"])
         /\ all_waivers' = all_waivers \o
              (IF fetch = "ok" THEN project_waivers(project_ids[idx], active_only)
               ELSE <<>>)
    /\ idx' = idx + 1
    /\ UNCHANGED <<client, pc, smartVars, reqVars, result, project_ids, listings,
                   all_issues, projectWaivers, active_only, shown, confirm,
                   deleted, templateVars, bulkVars>>

\* get_all_waivers has returned: the caller computes its result.
ReturnWaivers ==
    /\ pc \in WaiverOps
    /\ idx > Len(project_ids)
    /\ result' = [op |-> pc,
                  value |-> IF pc = "find_duplicate_waivers"
                            THEN duplicates(all_waivers)
                            ELSE expiring_soon(all_waivers)]
    /\ pc' = "done"
    /\ UNCHANGED <<client, smartVars, reqVars, distinctVars, waiverVars,
                   templateVars, bulkVars>>

InitWaivers ==
    /\ client = "utility"
    /\ pc \in WaiverOps
    /\ result = "none"
    /\ project_ids \in ProjectLists
    /\ idx = 1
    /\ SmartIdle
    /\ RequestsIdle
    /\ DistinctIdle
    /\ TemplatesIdle
    /\ BulkIdle
    /\ projectWaivers \in [Projects -> ProjectWaiverLists]
    /\ active_only = (pc # "get_waiver_statistics")
    /\ all_waivers = <<>>
    /\ RemovalIdle

NextWaivers == FetchProjectWaivers \/ ReturnWaivers

SpecWaivers == InitWaivers /\ [][NextWaivers]_vars

\* The projects of project_ids whose requests returned, and the active
\* waivers the server holds for them.
FetchedOk == { project_ids[i] : i \in { j \in 1..Len(fetched) : fetched[j].ok } }

WaiversOf(p) == { SnykWaiver(projectWaivers[p][i], p) : i \in 1..Len(projectWaivers[p]) }

ActiveWaivers == { w \in UNION { WaiversOf(p) : p \in FetchedOk } : w.is_active }

IssueIds == { w.issue_id : w \in ActiveWaivers }

\* C16: find_duplicate_waivers returns, for the active waivers of the given
\* projects, exactly one group per issue id that has more than one active
\* waiver, holding each of these waivers once: an issue id with a single
\* active waiver has no group, two active waivers of one issue id in
\* different projects have one group of size 2.
C16_DuplicateGroups ==
    (pc = "done" /\ result.op = "find_duplicate_waivers") =>
        /\ \A k \in IssueIds :
              LET members == { w \in ActiveWaivers : w.issue_id = k }
                  groups == { n \in 1..Len(result.value) : result.value[n][1].issue_id = k }
              IN IF Cardinality(members) > 1
                 THEN /\ Cardinality(groups) = 1
                      /\ \A n \in groups :
                            /\ Range(result.value[n]) = members
                            /\ Len(result.value[n]) = Cardinality(members)
                 ELSE groups = {}
        /\ \A n \in 1..Len(result.value) : result.value[n][1].issue_id \in IssueIds

\* C17: get_waiver_statistics (and list_active_waivers) flag as expiring soon
\* exactly the active waivers whose expiry is a date no later than 30 days
\* after now, whether the ISO-8601 text carries 'Z' or an offset or not.
C17_ExpiringSoonFlagged ==
    (pc = "done" /\ result.op \in {"get_waiver_statistics", "list_active_waivers"}) =>
        Range(result.value) =
            { w \in ActiveWaivers :
                Parses(w.expiry_date) /\ w.expiry_date.day <= now + HorizonDays }

-----------------------------------------------------------------------------
(* bulk_add_waivers and bulk_add_waivers_by_project_list (snyk_utility.py) *)
(* One step is one iteration of the loop over the items; the calls of     *)
(* _make_request an iteration makes are taken by their outcome.            *)

RECURSIVE Outcomes(_, _, _)
\* How a call of _make_request that has reached attempt a may end: the loop
\* of Iteration over every answer of the server.
Outcomes(c, exists, a) ==
    UNION { LET it == Iteration("utility", a, r) IN
            IF it.outcome # "running"
            THEN {[outcome |-> it.outcome, error |-> it.error]}
            ELSE IF LoopExhausted(a + 1)
            THEN {[outcome |-> "raised", error |-> "Exception"]}
            ELSE Outcomes(c, exists, a + 1)
          : r \in ServerAnswersFor(c, exists) }

ProbeOutcomes == [exists \in BOOLEAN |-> Outcomes("probe", exists, 0)]

ListingOutcomes == Outcomes("listing", TRUE, 0)

CreateOutcomes == Outcomes("create", TRUE, 0)

\* Mutant: the probe's handler catches HTTPError only.
ProbeCatches_HTTPErrorOnly(e) == e = "HTTPError"

\* smart_add_waiver: "except Exception as e" around the existence probe
ProbeCatches(e) == TRUE

Run(status, sent, raised) == [status |-> status, sent |-> sent, raised |-> raised]

\* add_waiver and the return of smart_add_waiver after it
AddRuns(sent) ==
    { Run(IF o.outcome = "returned" THEN "added" ELSE "failed",
          Append(sent, "create"), "none") : o \in CreateOutcomes }

\* get_existing_waivers_for_issue (the empty list when its request raised)
\* and the waiver check of smart_add_waiver
ListingRuns(ws) ==
    UNION { LET existing_waivers ==
                    IF o.outcome = "returned" THEN ParseWaivers(ws) ELSE <<>> IN
            IF active_waivers(existing_waivers) # <<>>
            THEN {Run("skipped_existing_waiver", <<"probe", "listing">>, "none")}
            ELSE AddRuns(<<"probe", "listing">>)
          : o \in ListingOutcomes }

\* smart_add_waiver: the ways one call may go, over the states of the server
\* and the outcomes of its requests.
smart_add_waiver(skip) ==
    UNION { IF o.outcome = "raised" /\ ~ProbeCatches(o.error)
            THEN {Run("none", <<"probe">>, o.error)}
            ELSE LET next == AfterProbe(o.outcome = "returned", skip) IN
                 IF next = "skipped_no_issue"
                 THEN {Run("skipped_no_issue", <<"probe">>, "none")}
                 ELSE IF next = "listing"
                 THEN UNION { ListingRuns(ws) : ws \in WaiverLists }
                 ELSE AddRuns(<<"probe">>)
          : o \in UNION { ProbeOutcomes[exists] : exists \in BOOLEAN } }

SmartRuns == [skip \in BOOLEAN |-> smart_add_waiver(skip)]

\* Strings are sequences of characters.
lower(ch) ==
    CASE ch = "X" -> "x"
      [] ch = "S" -> "s"
      [] ch = "N" -> "n"
      [] ch = "Y" -> "y"
      [] ch = "K" -> "k"
      [] ch = "I" -> "i"
      [] ch = "U" -> "u"
      [] OTHER -> ch

Lower(str) == [i \in 1..Len(str) |-> lower(str[i])]

\* sub in str
Contains(sub, str) ==
    \E k \in 0..(Len(str) - Len(sub)) : \A i \in 1..Len(sub) : str[k + i] = sub[i]

\* str.startswith(prefix)
startswith(str, prefix) ==
    /\ Len(str) >= Len(prefix)
    /\ \A i \in 1..Len(prefix) : str[i] = prefix[i]

SnykPrefix == <<"S", "N", "Y", "K", "-">>

\* The references the user gives: "XSS", "S2", "q" and the issue id "SNYK-1".
References ==
    { <<"X", "S", "S">>, <<"S", "2">>, <<"q">>, <<"S", "N", "Y", "K", "-", "1">> }

\* Mutant: the titles are compared as they are written.
TitleMatches_CaseSensitive(reference, issue) == Contains(reference, issue.title)

\* issue_reference.lower() in issue.title.lower()
TitleMatches(reference, issue) == Contains(Lower(reference), Lower(issue.title))

matching_issues(reference, project_issues) ==
    SelectSeq(project_issues, LAMBDA issue : TitleMatches(reference, issue))

\* The issues handed to bulk_add_waivers.
BulkIssues == { SnykIssue(ServerIssues[k], p) : k \in 1..Len(ServerIssues), p \in Projects }

BulkIssueLists == UNION { [1..n -> BulkIssues] : n \in 0..MaxIssues }

BulkOps == {"bulk_add_waivers", "bulk_add_waivers_by_project_list"}

Put(f, k, v) == [x \in DOMAIN f \cup {k} |-> IF x = k THEN v ELSE f[x]]

\* What the last iteration did: its item and key, the issues fetched for the
\* title search, the issue id and requests of smart_add_waiver, the status
\* recorded and the exception that left the bulk function.
Item(op, n, key, project_issues, issue_id, run) ==
    [op |-> op, item |-> n, key |-> key, project_issues |-> project_issues,
     issue_id |-> issue_id, sent |-> run.sent, status |-> run.status,
     raised |-> run.raised]

\* bulk_add_waivers_by_project_list: "except Exception as e" around the
\* iteration records 'failed'.
Caught(run) == IF run.raised # "none" THEN Run("failed", run.sent, "none") ELSE run

\* One iteration of "for issue in issues" of bulk_add_waivers.
BulkAddWaiversItem ==
    /\ pc = "bulk_add_waivers"
    /\ idx <= Len(issues)
    /\ LET issue == issues[idx]
           key == <<issue.id, issue.project_id>> IN
       \E run \in SmartRuns[skip_if_waived] :
         /\ bulkLog' = Item(pc, idx, key, <<>>, issue.id, run)
         /\ IF run.raised # "none"
            THEN pc' = "raised" /\ UNCHANGED <<results, idx>>
            ELSE /\ results' = Put(results, key, run.status)
                 /\ idx' = idx + 1
                 /\ UNCHANGED pc
    /\ UNCHANGED <<client, smartVars, reqVars, result, project_ids, listings,
                   fetched, all_issues, templateVars, waiverVars, issues,
                   issue_reference>>

\* One iteration of "for project_id in project_ids" of
\* bulk_add_waivers_by_project_list.
BulkByProjectItem ==
    /\ pc = "bulk_add_waivers_by_project_list"
    /\ idx <= Len(project_ids)
    /\ LET project_id == project_ids[idx] IN
       IF startswith(issue_reference, SnykPrefix)
       THEN \E run \in SmartRuns[skip_if_waived] :
              /\ bulkLog' = Item(pc, idx, project_id, <<>>, issue_reference, Caught(run))
              /\ results' = Put(results, project_id, Caught(run).status)
       ELSE \E data \in IssueLists, ok \in BOOLEAN :
              LET project_issues == ProjectIssues(data, project_id, ok)
                  matching == matching_issues(issue_reference, project_issues) IN
              IF matching = <<>>
              THEN /\ bulkLog' = Item(pc, idx, project_id, project_issues, "none",
                                      Run("skipped_no_issue", <<>>, "none"))
                   /\ results' = Put(results, project_id, "skipped_no_issue")
              ELSE IF Len(matching) > 1
              THEN /\ bulkLog' = Item(pc, idx, project_id, project_issues, "none",
                                      Run("failed", <<>>, "none"))
                   /\ results' = Put(results, project_id, "failed")
              ELSE \E run \in SmartRuns[skip_if_waived] :
                     /\ bulkLog' = Item(pc, idx, project_id, project_issues,
                                        matching[1].id, Caught(run))
                     /\ results' = Put(results, project_id, Caught(run).status)
    /\ idx' = idx + 1
    /\ UNCHANGED <<client, pc, smartVars, reqVars, result, project_ids, listings,
                   fetched, all_issues, templateVars, waiverVars, issues,
                   issue_reference>>

\* return results
ReturnResults ==
    /\ pc \in BulkOps
    /\ idx > (IF pc = "bulk_add_waivers" THEN Len(issues) ELSE Len(project_ids))
    /\ result' = results
    /\ pc' = "done"
    /\ UNCHANGED <<client, smartVars, reqVars, distinctVars, templateVars,
                   waiverVars, bulkVars>>

InitBulk ==
    /\ client = "utility"
    /\ pc \in BulkOps
    /\ result = "none"
    /\ idx = 1
    /\ skip_if_waived \in BOOLEAN
    /\ issueExists = TRUE
    /\ serverWaivers = <<>>
    /\ reqLog = <<>>
    /\ callLog = <<>>
    /\ existing = <<>>
    /\ addCalls = 0
    /\ RequestsIdle
    /\ DistinctIdle
    /\ TemplatesIdle
    /\ WaiversIdle
    /\ issues \in (IF pc = "bulk_add_waivers" THEN BulkIssueLists ELSE {<<>>})
    /\ project_ids \in (IF pc = "bulk_add_waivers" THEN {<<>>} ELSE ProjectLists)
    /\ issue_reference \in (IF pc = "bulk_add_waivers" THEN {<<>>} ELSE References)
    /\ results = <<>>
    /\ bulkLog = Item(pc, 0, "none", <<>>, "none", Run("none", <<>>, "none"))

NextBulk == BulkAddWaiversItem \/ BulkByProjectItem \/ ReturnResults

SpecBulk == InitBulk /\ [][NextBulk]_vars

BulkKeys(n) ==
    IF bulkLog.op = "bulk_add_waivers"
    THEN { <<issues[i].id, issues[i].project_id>> : i \in 1..n }
    ELSE { project_ids[i] : i \in 1..n }

BulkItems == IF bulkLog.op = "bulk_add_waivers" THEN Len(issues) ELSE Len(project_ids)

\* C18: no exception leaves bulk_add_waivers or
\* bulk_add_waivers_by_project_list; after each iteration the outcome map
\* holds one of the four statuses for the key of every item processed so far,
\* and the map returned holds one for the key of every input item.
C18_BatchNeverAborts ==
    /\ pc # "raised"
    /\ bulkLog.raised = "none"
    /\ DOMAIN results = BulkKeys(idx - 1)
    /\ \A k \in DOMAIN results : results[k] \in Statuses
    /\ pc = "done" =>
          /\ idx = BulkItems + 1
          /\ DOMAIN result = BulkKeys(BulkItems)
          /\ \A k \in DOMAIN result : result[k] \in Statuses

C18_Witness ==
    /\ pc = "done"
    /\ bulkLog.op = "bulk_add_waivers"
    /\ bulkLog.item = BulkItems
    /\ bulkLog.status = "added"
    /\ \E k \in DOMAIN result : result[k] = "failed"

MatchCount ==
    Cardinality({ i \in 1..Len(bulkLog.project_issues) :
                    Contains(Lower(issue_reference), Lower(bulkLog.project_issues[i].title)) })

ByTitle ==
    /\ bulkLog.op = "bulk_add_waivers_by_project_list"
    /\ bulkLog.item >= 1
    /\ ~startswith(issue_reference, SnykPrefix)

\* C19: when the reference is matched against the titles (without regard to
\* case), a project with no matching issue gets skipped_no_issue and one with
\* several gets failed, in both cases without any request of
\* smart_add_waiver (no existence probe, no create); a project with exactly
\* one match goes on to smart_add_waiver with the id of that issue.
C19_AmbiguousNeverGuessed ==
    ByTitle =>
        /\ MatchCount = 0 => (results[bulkLog.key] = "skipped_no_issue" /\ bulkLog.sent = <<>>)
        /\ MatchCount > 1 => (results[bulkLog.key] = "failed" /\ bulkLog.sent = <<>>)
        /\ MatchCount = 1 <=> bulkLog.sent # <<>>
        /\ bulkLog.sent # <<>> =>
              /\ bulkLog.sent[1] = "probe"
              /\ \E i \in 1..Len(bulkLog.project_issues) :
                    /\ Contains(Lower(issue_reference), Lower(bulkLog.project_issues[i].title))
                    /\ bulkLog.issue_id = bulkLog.project_issues[i].id
              /\ results[bulkLog.key] = bulkLog.status

C19_Witness ==
    /\ ByTitle
    /\ MatchCount > 1
    /\ results[bulkLog.key] = "failed"
    /\ \E i, j \in 1..Len(bulkLog.project_issues) :
          bulkLog.project_issues[i].id # bulkLog.project_issues[j].id

-----------------------------------------------------------------------------
(* Claims about get_all_waivers (SpecWaivers) *)

\* The waivers of the responses get_all_waivers received: server id and
\* expiry attribute.
FetchedWaivers ==
    UNION { { [id |-> <<p, projectWaivers[p][i].id>>,
               expiry |-> projectWaivers[p][i].expiry] :
                 i \in 1..Len(projectWaivers[p]) } : p \in FetchedOk }

ReturnedIds == { all_waivers[i].id : i \in 1..Len(all_waivers) }

\* The expiry attribute is a date after now / a date not after now.
InFuture(e) == Parses(e) /\ e.day > now

InPast(e) == Parses(e) /\ e.day <= now

\* C21 as stated: is_active says that the expiry lies in the future, with
\* active_only the fetched waivers returned are exactly those whose expiry
\* lies in the future, without it every fetched waiver is returned.
C21_ActiveIffFuture ==
    /\ \A i \in 1..Len(all_waivers) :
          all_waivers[i].is_active <=> InFuture(all_waivers[i].expiry_date)
    /\ ReturnedIds =
          { f.id : f \in { g \in FetchedWaivers : ~active_only \/ InFuture(g.expiry) } }

\* C21 amended: is_active is False exactly for an expiry that is a date not
\* after now (a missing, empty or unreadable expiry counts as active); with
\* active_only the fetched waivers returned are exactly the active ones, so
\* none whose expiry is in the past, and without it every fetched waiver is
\* returned with its flag.
C21_ActiveUnlessPast ==
    /\ \A i \in 1..Len(all_waivers) :
          /\ all_waivers[i].is_active <=> ~InPast(all_waivers[i].expiry_date)
          /\ active_only => ~InPast(all_waivers[i].expiry_date)
          /\ \E f \in FetchedWaivers :
                f.id = all_waivers[i].id /\ f.expiry = all_waivers[i].expiry_date
    /\ ReturnedIds =
          { f.id : f \in { g \in FetchedWaivers : ~active_only \/ ~InPast(g.expiry) } }

C21_Witness ==
    /\ pc = "done"
    /\ active_only
    /\ \E f \in FetchedWaivers : InPast(f.expiry)
    /\ \E i \in 1..Len(all_waivers) : all_waivers[i].expiry_date.form = "garbage"

-----------------------------------------------------------------------------
(* Claims about trigger_project_test of the debug client (Spec) *)

\* C22: trigger_project_test never raises to its caller: whatever the server
\* answers, the access check of the debug client included, it ends by
\* returning True or False.
C22_TriggerNeverRaises ==
    (client = "debug" /\ pc = "done") => result \in {"True", "False"}

-----------------------------------------------------------------------------
(* Further claims about _make_request and smart_add_waiver (Spec) *)

Only429 ==
    responses # <<>> /\ \A i \in 1..Len(responses) : responses[i].status = 429

\* C23: a call of _make_request sends at most 3 requests and then ends; a
\* call whose answers are all 429 ends after the third one by raising the
\* generic exception "Max retries exceeded".
C23_AtMostThreeRequests ==
    /\ Len(responses) <= max_retries
    /\ Len(responses) = max_retries => outcome # "running"
    /\ (Only429 /\ outcome # "running") =>
          /\ Len(responses) = max_retries
          /\ outcome = "raised"
          /\ error = "Exception"

\* C24: smart_add_waiver returns skipped_no_issue only when the existence
\* probe was answered 404, not when the probe failed for another reason.
C24_SkippedOnlyOn404 ==
    (Smart /\ result = "skipped_no_issue") =>
        (responses # <<>> /\ Last(responses) = Http(404))

\* C25: with skip_if_waived=True no waiver-create request is sent for an
\* issue that has an active waiver on the server, also when the listing
\* request fails.
C25_NoCreateOverActiveWaiver ==
    (Smart /\ skip_if_waived /\ HasActiveWaiver) => "create" \notin Range(reqLog)


-----------------------------------------------------------------------------
(* cleanup_expired_waivers and remove_waivers_by_issue, with                *)
(* bulk_remove_waivers_by_issue and remove_waiver (snyk_utility.py)         *)

\* The waivers a project may hold while a removal runs: an active one and an
\* expired one with an issue, one whose expiry cannot be parsed and one
\* without an expiry.
RemovalPool == << WaiverPool[1], WaiverPool[4], WaiverPool[5], WaiverPool[6] >>

RemovalChoices(n) ==
    { f \in [1..n -> 1..Len(RemovalPool)] :
        \A i \in 1..n, j \in 1..n : i < j => f[i] < f[j] }

RemovalLists ==
    UNION { { [i \in 1..n |-> RemovalPool[f[i]]] : f \in RemovalChoices(n) } :
            n \in 0..MaxWaivers }

Unknown == <<"U", "n", "k", "n", "o", "w", "n">>

\* issue_title = 'Unknown', replaced by the title of the issue details when
\* the waiver names an issue and the details request returns.
issue_title(waiver_data, details) ==
    IF waiver_data.issue # "none" /\ details[waiver_data.issue]
    THEN TitleOf[waiver_data.issue]
    ELSE Unknown

\* The characters of SnykWaiver.issue_id.
IssueIdChars(issue_id) ==
    CASE issue_id = "I1" -> <<"I", "1">>
      [] issue_id = "I2" -> <<"I", "2">>
      [] OTHER -> Unknown

\* The references the user gives: the issue id "I1" and the title part "xss".
RemovalReferences == { <<"I", "1">>, <<"x", "s", "s">> }

\* The SnykWaiver of get_all_waivers with its issue_title.
TitledWaiver(waiver_data, project_id, details) ==
    LET w == SnykWaiver(waiver_data, project_id) IN
    [id |-> w.id, issue_id |-> w.issue_id, project_id |-> w.project_id,
     expiry_date |-> w.expiry_date, is_active |-> w.is_active,
     issue_title |-> issue_title(waiver_data, details)]

\* get_all_waivers(project_ids, active_only=False) against the waivers
\* `server` holds: oks[k] tells whether the two requests of the k-th project
\* returned, details[i] whether the details requests of issue i returned.
RECURSIVE get_all_waivers(_, _, _, _)
get_all_waivers(server, oks, details, k) ==
    IF k = 0 THEN <<>>
    ELSE get_all_waivers(server, oks, details, k - 1) \o
         (IF oks[k]
          THEN [i \in 1..Len(server[project_ids[k]]) |->
                   TitledWaiver(server[project_ids[k]][i], project_ids[k], details)]
          ELSE <<>>)

Fetches(server) ==
    { get_all_waivers(server, oks, details, Len(project_ids)) :
        oks \in [1..Len(project_ids) -> BOOLEAN],
        details \in [{"I1", "I2"} -> BOOLEAN] }

\* issue_reference == waiver.issue_id or
\* issue_reference.lower() in waiver.issue_title.lower()
matching_waivers(ws, reference) ==
    SelectSeq(ws, LAMBDA w :
        \/ reference = IssueIdChars(w.issue_id)
        \/ Contains(Lower(reference), Lower(w.issue_title)))

\* expired_waivers = [w for w in all_waivers if not w.is_active]
expired_waivers(ws) == SelectSeq(ws, LAMBDA w : ~w.is_active)

\* What happens to the server between the listing and the confirmed removal:
\* nothing, or somebody creates one more waiver in one project.
ServerChanges(server) ==
    {server} \cup
    { [server EXCEPT ![p] =
          SelectSeq(RemovalPool, LAMBDA d : d \in Range(server[p]) \/ d = e)] :
        p \in Projects, e \in Range(RemovalPool) }

RemovalOps == {"cleanup_expired_waivers", "remove_waivers_by_issue"}

Answers == {"y", "Y", "n", ""}

Ids(ws) == [i \in 1..Len(ws) |-> ws[i].id]

\* The first get_all_waivers of either operation and the list it prints.
\* With nothing to list the operation returns.
ListWaivers ==
    /\ pc \in RemovalOps
    /\ \E ws \in Fetches(projectWaivers) :
         /\ all_waivers' = ws
         /\ shown' = [op |-> pc,
                      waivers |-> IF pc = "cleanup_expired_waivers"
                                  THEN expired_waivers(ws)
                                  ELSE matching_waivers(ws, issue_reference)]
    /\ pc' = IF shown'.waivers = <<>> THEN "done" ELSE "prompt"
    /\ UNCHANGED <<client, smartVars, reqVars, distinctVars, templateVars,
                   bulkVars, result, projectWaivers, active_only, confirm,
                   deleted>>

\* if confirm.lower() != 'y': print("Cancelled"); return
Cancelled ==
    /\ pc = "prompt"
    /\ \E answer \in Answers :
         /\ lower(answer) # "y"
         /\ confirm' = answer
    /\ pc' = "done"
    /\ UNCHANGED <<client, smartVars, reqVars, distinctVars, templateVars,
                   bulkVars, result, projectWaivers, active_only, all_waivers,
                   shown, deleted>>

\* cleanup_expired_waivers after 'y': remove_waiver for every listed waiver.
CleanupConfirmed ==
    /\ pc = "prompt"
    /\ shown.op = "cleanup_expired_waivers"
    /\ \E answer \in Answers :
         /\ lower(answer) = "y"
         /\ confirm' = answer
    /\ deleted' = Ids(shown.waivers)
    /\ pc' = "done"
    /\ UNCHANGED <<client, smartVars, reqVars, distinctVars, templateVars,
                   bulkVars, result, projectWaivers, active_only, all_waivers,
                   shown>>

\* remove_waivers_by_issue after 'y': bulk_remove_waivers_by_issue calls
\* get_all_waivers again and remove_waiver for every waiver that matches now.
RemoveConfirmed ==
    /\ pc = "prompt"
    /\ shown.op = "remove_waivers_by_issue"
    /\ \E answer \in Answers :
         /\ lower(answer) = "y"
         /\ confirm' = answer
    /\ \E server \in ServerChanges(projectWaivers) :
         /\ projectWaivers' = server
         /\ \E ws \in Fetches(server) :
              deleted' = Ids(matching_waivers(ws, issue_reference))
    /\ pc' = "done"
    /\ UNCHANGED <<client, smartVars, reqVars, distinctVars, templateVars,
                   bulkVars, result, active_only, all_waivers, shown>>

RemovalInit(op) ==
    /\ client = "utility"
    /\ pc = op
    /\ result = "none"
    /\ SmartIdle
    /\ RequestsIdle
    /\ TemplatesIdle
    /\ DistinctIdle
    /\ project_ids \in ProjectLists \ {<<>>}
    /\ idx = 1
    /\ issues = <<>>
    /\ issue_reference \in IF op = "remove_waivers_by_issue"
                           THEN RemovalReferences ELSE {<<>>}
    /\ results = <<>>
    /\ bulkLog = <<>>
    /\ projectWaivers \in [Projects -> RemovalLists]
    /\ active_only = FALSE
    /\ all_waivers = <<>>
    /\ RemovalIdle

InitCleanup == RemovalInit("cleanup_expired_waivers")

NextCleanup == ListWaivers \/ Cancelled \/ CleanupConfirmed

SpecCleanup == InitCleanup /\ [][NextCleanup]_vars

InitRemove == RemovalInit("remove_waivers_by_issue")

NextRemove == ListWaivers \/ Cancelled \/ RemoveConfirmed

SpecRemove == InitRemove /\ [][NextRemove]_vars


\* An expiry that is absent, empty or not a date.
Unreadable(e) == e.form \in {"missing", "empty", "garbage"}

\* C26: a waiver whose expiry is missing, empty or unparseable is recorded as
\* active by get_existing_waivers_for_issue and by get_all_waivers: a listing
\* that holds one leaves smart_add_waiver an active waiver to skip on, and
\* cleanup_expired_waivers neither lists it as expired nor sends a DELETE
\* for it.
C26_UnreadableExpiryIsActive ==
    /\ \A ws \in WaiverLists :
         \A i \in 1..Len(ws) :
            Unreadable(ws[i]) =>
               /\ ParseWaivers(ws)[i].is_active
               /\ active_waivers(ParseWaivers(ws)) # <<>>
    /\ \A i \in 1..Len(all_waivers) :
         Unreadable(all_waivers[i].expiry_date) =>
            /\ all_waivers[i].is_active
            /\ all_waivers[i] \notin Range(expired_waivers(all_waivers))
            /\ (pc \in {"prompt", "done"} /\ shown.op = "cleanup_expired_waivers") =>
                  /\ all_waivers[i].id \notin Range(Ids(shown.waivers))
                  /\ all_waivers[i].id \notin Range(deleted)

\* cleanup_expired_waivers was confirmed and sent DELETE requests while the
\* fetched waivers held one with an unreadable expiry.
C26_Witness ==
    /\ pc = "done"
    /\ shown # <<>>
    /\ shown.op = "cleanup_expired_waivers"
    /\ lower(confirm) = "y"
    /\ deleted # <<>>
    /\ \E i \in 1..Len(all_waivers) : all_waivers[i].expiry_date.form = "garbage"
    /\ \E i \in 1..Len(all_waivers) : all_waivers[i].expiry_date.form = "missing"

\* C29: remove_waivers_by_issue sends a DELETE for exactly the waivers it
\* listed before the prompt when the answer is 'y', and for none otherwise.
C29_DeletesWhatWasShown ==
    (pc = "done" /\ shown # <<>> /\ shown.op = "remove_waivers_by_issue") =>
        IF lower(confirm) = "y"
        THEN Range(deleted) = Range(Ids(shown.waivers))
        ELSE deleted = <<>>


\* The issue the server-side waiver behind a SnykWaiver refers to ("none"
\* when its relationships name no issue).
ServerIssue(w) == WaiverPool[w.id[2]].issue

\* C28: every group find_duplicate_waivers returns holds waivers of one and
\* the same server-side issue, and two different waivers without an issue
\* relationship are never members of one group.
C28_GroupsShareOneIssue ==
    (pc = "done" /\ result.op = "find_duplicate_waivers") =>
        \A n \in 1..Len(result.value) :
           \A i, j \in 1..Len(result.value[n]) :
              LET a == result.value[n][i]
                  b == result.value[n][j] IN
              /\ ServerIssue(a) = ServerIssue(b)
              /\ (a.id # b.id) => (ServerIssue(a) # "none" /\ ServerIssue(b) # "none")


-----------------------------------------------------------------------------
(* add_waivers_interactive: the count printed after bulk_add_waivers *)

\* The value bulk_add_waivers stores for an item: smart_add_waiver's dict.
ResultDict(status) == [status |-> status, message |-> "text"]

\* bool(d) of a dict: it has an entry.
truthy(d) == DOMAIN d # {}

\* successful = sum(1 for success in results.values() if success)
successful(rs) == Cardinality({ k \in DOMAIN rs : truthy(ResultDict(rs[k])) })

\* added = sum(1 for r in results.values() if r['status'] == 'added')
added_count(rs) == Cardinality({ k \in DOMAIN rs : ResultDict(rs[k]).status = "added" })

\* C30: the n of "Waivers added: n/m" printed by add_waivers_interactive is
\* the number of selected issues whose outcome status is 'added'.
C30_PrintedCountIsAdded ==
    (pc = "done" /\ bulkLog.op = "bulk_add_waivers" /\ skip_if_waived) =>
        successful(result) = added_count(result)


-----------------------------------------------------------------------------
(* main (add-waivers): bulk_add_waivers over list(get_distinct_issues(...)) *)

\* The (issue id, project id) pairs bulk_add_waivers calls smart_add_waiver
\* with, whose requests all address that project.
smart_add_calls(issue_set) == { <<x.id, x.project_id>> : x \in issue_set }

\* The positions in project_ids whose fetch returned an issue equal to x.
ListedAt(x) ==
    { k \in 1..Len(fetched) :
        \E i \in 1..Len(fetched[k].issues) : SnykIssue_eq(fetched[k].issues[i], x) }

FirstProject(x) ==
    project_ids[CHOOSE k \in ListedAt(x) : \A m \in ListedAt(x) : k <= m]

\* C27: of an issue listed by several projects with the same identity key,
\* the distinct set keeps the record of the first project, in project_ids
\* order, whose fetch listed it, so bulk_add_waivers over the distinct set
\* calls smart_add_waiver for it in that project only.
C27_FirstProjectOnly ==
    \A x \in Fetched :
        smart_add_calls({ y \in all_issues : SnykIssue_eq(y, x) }) =
            { <<x.id, FirstProject(x)>> }

\* I1 was listed by p2 and then by p1, and the run has returned.
C27_Witness ==
    /\ pc = "done"
    /\ project_ids = <<"p2", "p1">>
    /\ fetched[1].ok /\ fetched[2].ok
    /\ \E i \in 1..Len(fetched[1].issues) : fetched[1].issues[i].id = "I1"
    /\ \E i \in 1..Len(fetched[2].issues) : fetched[2].issues[i].id = "I1"
    /\ smart_add_calls(all_issues) = { <<"I1", "p2">> }

=============================================================================
